---- MODULE Spec2Model ----
(***************************************************************************)
(* Model of the bestfewo.de scraper pipeline:                              *)
(*   scraper_with_concur.py            (plain discoverer, set of ids)      *)
(*   scraper_with_concur_and_price.py  (price-aware discoverer, list)      *)
(* The two scripts share save_html, log_result and download_with_eta word  *)
(* for word; they differ in scrape_property_links only.  One run of the    *)
(* __main__ block is modelled: discovery of the listing pages, submission  *)
(* of one save_html task per catalog entry to a ThreadPoolExecutor, the    *)
(* workers' steps, and the main thread's as_completed loop.                *)
(***************************************************************************)
EXTENDS Integers, Sequences, FiniteSets, TLC

----------------------------------------------------------------------------
(* Bounds of the model *)

\* object ids are 1..NumIds (strings in the code; their order stands for the
\* lexicographic order sorted() uses)
NumIds == 2
\* the `pages` argument of scrape_property_links
MaxPages == 3
\* most listing entries one page response carries
MaxPerPage == 2
\* most entries the listing site serves over all pages of one run
MaxItems == 2
\* largest max_workers tried
MaxWorkers == 2
\* largest eta_interval tried
MaxEta == 2
\* runs of the script on the same items: a killed run is started once more
MaxRuns == 2

(* Program constants *)

\* for attempt in range(5)
MaxAttempts == 5

Ids == 1..NumIds
Pages == 1..MaxPages

----------------------------------------------------------------------------
(* Helpers *)

Range(s) == {s[i] : i \in DOMAIN s}

\* all sequences over S of length 0..n
SeqsUpTo(S, n) == UNION {[1..k -> S] : k \in 0..n}

Min(S) == CHOOSE x \in S : \A y \in S : x <= y

\* sorted(object_ids): the ascending list of the elements of a set
RECURSIVE SortedDrop(_)
SortedDrop(S) == IF S = {} THEN <<>> ELSE <<Min(S)>> \o SortedDrop(S \ {Min(S)})

Sorted(S) == SortedDrop(S)

\* a file of SAVE_DIR: absent, opened for writing but not (fully) written,
\* or holding a whole body; `by` is the task whose response was written
\* (0: a document left by an earlier run)
NoFile == [st |-> "none", by |-> 0]
PartialFile == [st |-> "partial", by |-> 0]
BodyFile(t) == [st |-> "body", by |-> t]

VARIABLES
  variant,      \* which script runs: "plain" or "price"
  run,          \* 1 for the first run, 2 for the run after a kill
  mpc,          \* position of the main thread
  page,         \* loop variable of scrape_property_links
  object_ids,   \* plain discoverer: the set being accumulated
  listings,     \* price discoverer: the list being accumulated
  attempted,    \* history: pages whose fetch was attempted, in order
  failedPages,  \* history: pages reported as "Failed to fetch page"
  found,        \* history: ids carried by the pages fetched successfully
  items,        \* argument of download_with_eta (catalog, as a list of ids)
  max_workers,  \* argument of download_with_eta
  eta_interval, \* argument of download_with_eta
  cache,        \* SAVE_DIR: id -> file
  cache0,       \* history: SAVE_DIR when the run started
  log,          \* lines appended to LOG_FILE in this run
  logWrites,    \* history: the log writes that took effect, in order, each
                \* with its task and the end of file its handle was opened at
  tpc,          \* task -> position of its save_html call
  attempt,      \* task -> loop variable of the retry loop
  netCalls,     \* history: task -> session.get calls made for the item
  backoffs,     \* history: task -> backoff sleeps taken
  result,       \* task -> value of the future ("none" while not finished)
  err,          \* task -> kind of the exception caught at line 81
  logpos,       \* task -> <<end of LOG_FILE when the task opened it>>, or <<>>
  completed,    \* counter of download_with_eta
  consumed,     \* futures as_completed has yielded
  printed,      \* results printed by the main loop, in order
  reports       \* values of `completed` at which the ETA was printed

vars == <<variant, run, mpc, page, object_ids, listings, attempted,
          failedPages, found, items, max_workers, eta_interval, cache, cache0,
          log, logWrites, tpc, attempt, netCalls, backoffs, result, err,
          logpos, completed, consumed, printed, reports>>

discVars == <<page, object_ids, listings, attempted, failedPages, found>>
taskVars == <<tpc, attempt, netCalls, backoffs, result, err, logpos>>
mainVars == <<completed, consumed, printed, reports>>
argVars == <<variant, run, items, max_workers, eta_interval, cache0>>
logVars == <<log, logWrites>>

\* the work items submitted to the executor (futures), in submission order
Tasks == DOMAIN tpc

Exists(id) == cache[id].st # "none"

----------------------------------------------------------------------------
(* Initial state: the script starts; SAVE_DIR may hold documents of an     *)
(* earlier run; the log lines of earlier runs are not represented.         *)

Init ==
  /\ variant \in {"plain", "price"}
  /\ run = 1
  /\ mpc = "discover"
  /\ page = 1
  /\ object_ids = {}
  /\ listings = <<>>
  /\ attempted = <<>>
  /\ failedPages = {}
  /\ found = {}
  /\ items = <<>>
  /\ max_workers \in 1..MaxWorkers
  /\ eta_interval \in 1..MaxEta
  /\ cache \in [Ids -> {NoFile, BodyFile(0)}]
  /\ cache0 = cache
  /\ log = <<>>
  /\ logWrites = <<>>
  /\ tpc = <<>>
  /\ attempt = <<>>
  /\ netCalls = <<>>
  /\ backoffs = <<>>
  /\ result = <<>>
  /\ err = <<>>
  /\ logpos = <<>>
  /\ completed = 0
  /\ consumed = {}
  /\ printed = <<>>
  /\ reports = <<>>

----------------------------------------------------------------------------
(* scrape_property_links *)

\* what one listing page can answer: the ids of its entries, in page order
PageBodies == SeqsUpTo(Ids, MaxPerPage)

\* plain: object_ids.add(object_id) for every entry of the page
AddAll(S, body) == S \cup Range(body)

\* price: listings.append({...}) for every entry of the page
AppendAll(L, body) == L \o body

\* one iteration of the page loop whose fetch and parse succeed
DiscoverPageOk ==
  /\ mpc = "discover"
  /\ page <= MaxPages
  /\ \E body \in PageBodies :
       /\ Len(listings) + Len(body) <= MaxItems
       /\ IF variant = "plain"
            THEN /\ object_ids' = AddAll(object_ids, body)
                 /\ UNCHANGED listings
            ELSE /\ listings' = AppendAll(listings, body)
                 /\ UNCHANGED object_ids
       /\ found' = found \cup Range(body)
  /\ attempted' = Append(attempted, page)
  /\ page' = page + 1
  /\ UNCHANGED <<variant, run, mpc, failedPages, items, max_workers, eta_interval,
                 cache, cache0, logVars, taskVars, mainVars>>

\* variant: the try block around the whole loop, a failed page ends the walk
DiscoverPageFailEndsWalk ==
  /\ mpc = "discover"
  /\ page <= MaxPages
  /\ attempted' = Append(attempted, page)
  /\ failedPages' = failedPages \cup {page}
  /\ page' = MaxPages + 1
  /\ UNCHANGED <<variant, run, mpc, object_ids, listings, found, items, max_workers,
                 eta_interval, cache, cache0, logVars, taskVars, mainVars>>

\* one iteration whose session.get / raise_for_status raises: except Exception
DiscoverPageFail ==
  /\ mpc = "discover"
  /\ page <= MaxPages
  /\ attempted' = Append(attempted, page)
  /\ failedPages' = failedPages \cup {page}
  /\ page' = page + 1
  /\ UNCHANGED <<variant, run, mpc, object_ids, listings, found, items, max_workers,
                 eta_interval, cache, cache0, logVars, taskVars, mainVars>>

\* the value scrape_property_links returns
Catalog == IF variant = "plain" THEN Sorted(object_ids) ELSE listings

\* return of scrape_property_links, and __main__ handing the result on
DiscoverReturn ==
  /\ mpc = "discover"
  /\ page > MaxPages
  /\ items' = Catalog
  /\ mpc' = "submit"
  /\ UNCHANGED <<variant, run, discVars, max_workers, eta_interval, cache, cache0,
                 logVars, taskVars, mainVars>>

----------------------------------------------------------------------------
(* download_with_eta: submission *)

\* total = len(object_ids); completed = 0; one executor.submit(save_html, oid)
\* per entry of the list, duplicates included (the dict is keyed by future).
\* The record of the failed listing pages belongs to the discovery call and
\* is dropped here: nothing in download_with_eta reads it.
Submit ==
  /\ mpc = "submit"
  /\ tpc' = [t \in DOMAIN items |-> "pending"]
  /\ attempt' = [t \in DOMAIN items |-> 0]
  /\ netCalls' = [t \in DOMAIN items |-> 0]
  /\ backoffs' = [t \in DOMAIN items |-> 0]
  /\ result' = [t \in DOMAIN items |-> "none"]
  /\ err' = [t \in DOMAIN items |-> "none"]
  /\ logpos' = [t \in DOMAIN items |-> <<>>]
  /\ completed' = 0
  /\ mpc' = "collect"
  /\ failedPages' = {}
  /\ UNCHANGED <<argVars, page, object_ids, listings, attempted, found, cache,
                 logVars, consumed, printed, reports>>

----------------------------------------------------------------------------
(* ThreadPoolExecutor: a worker thread takes the oldest queued work item *)

Finished(t) == tpc[t] \in {"done", "raised"}
Running == {t \in Tasks : tpc[t] \notin {"pending", "done", "raised"}}
Pending == {t \in Tasks : tpc[t] = "pending"}

\* a worker is free and t is at the head of the FIFO work queue
CanStart(t) ==
  /\ tpc[t] = "pending"
  /\ t = Min(Pending)
  /\ Cardinality(Running) < max_workers

Start(t) ==
  /\ mpc \in {"collect", "unwind"}
  /\ t \in Tasks
  /\ CanStart(t)
  /\ tpc' = [tpc EXCEPT ![t] = "check"]
  /\ UNCHANGED <<argVars, mpc, discVars, cache, logVars, attempt, netCalls,
                 backoffs, result, err, logpos,
                 mainVars>>

----------------------------------------------------------------------------
(* log_result *)

\* f.write(f"{status}: {object_id} {message}\n") on LOG_FILE opened with "a"
LogLine(t, success, message) ==
  [status |-> IF success THEN "SUCCESS" ELSE "ERROR",
   id |-> items[t], msg |-> message, task |-> t]

\* variant: LOG_FILE opened with "w", every call starts the file afresh
LogAppendTruncating(L, line) == <<line>>

\* variant: the line is written twice
LogAppendTwice(L, line) == Append(Append(L, line), line)

LogAppend(L, line) == Append(L, line)

\* variant: the write lands at the offset the file had when it was opened
LogWriteAtOffset(L, pos, line) ==
  IF pos >= Len(L) THEN Append(L, line) ELSE [L EXCEPT ![pos + 1] = line]

\* f.write and the flush on leaving the with block, on a file opened with
\* "a" (O_APPEND): the line goes to the end of the file as it is at the
\* write, wherever the end was when this handle was opened
LogWrite(L, pos, line) == LogAppend(L, line)

\* the three places in save_html that call log_result
LogSites == {"exhausted", "delay", "handler"}

\* with open(LOG_FILE, "a") as f
LogOpen(t) ==
  /\ t \in Tasks
  /\ tpc[t] \in LogSites
  /\ logpos[t] = <<>>
  /\ logpos' = [logpos EXCEPT ![t] = <<Len(log)>>]
  /\ UNCHANGED <<argVars, mpc, discVars, cache, logVars, tpc, attempt,
                 netCalls, backoffs, result, err, mainVars>>

----------------------------------------------------------------------------
(* save_html, run by a worker for task t *)

\* variant: the existence test never answers true
AlreadySavedNever(id) == FALSE

\* if os.path.exists(file_path)
AlreadySaved(id) == Exists(id)

\* variant: save_html without its early return
CheckWithoutSkip(t) ==
  /\ t \in Tasks
  /\ tpc[t] = "check"
  /\ tpc' = [tpc EXCEPT ![t] = "fetch"]
  /\ UNCHANGED <<argVars, mpc, discVars, cache, logVars, attempt, netCalls,
                 backoffs, result, err, logpos,
                 mainVars>>

\* lines 53-57: the skip check
Check(t) ==
  /\ t \in Tasks
  /\ tpc[t] = "check"
  /\ IF AlreadySaved(items[t])
       THEN /\ tpc' = [tpc EXCEPT ![t] = "done"]
            /\ result' = [result EXCEPT ![t] = "Already saved"]
       ELSE /\ tpc' = [tpc EXCEPT ![t] = "fetch"]
            /\ UNCHANGED result
  /\ UNCHANGED <<argVars, mpc, discVars, cache, logVars, attempt, netCalls,
                 backoffs, err, logpos,
                 mainVars>>

\* variant: for attempt in range(6)
MoreAttemptsOffByOne(a) == a + 1 <= MaxAttempts

\* the retry loop goes on after a failed attempt number a (0-based)
MoreAttempts(a) == a + 1 < MaxAttempts

\* an attempt answered 2xx: break out of the loop
FetchOk(t) ==
  /\ t \in Tasks
  /\ tpc[t] = "fetch"
  /\ netCalls' = [netCalls EXCEPT ![t] = @ + 1]
  /\ tpc' = [tpc EXCEPT ![t] = "store"]
  /\ UNCHANGED <<argVars, mpc, discVars, cache, logVars, attempt, backoffs,
                 result, err, logpos,
                 mainVars>>

\* an attempt raising requests.RequestException: print, sleep 2**attempt +
\* jitter, next iteration; the loop's else branch when range(5) is used up
FetchRequestException(t) ==
  /\ t \in Tasks
  /\ tpc[t] = "fetch"
  /\ netCalls' = [netCalls EXCEPT ![t] = @ + 1]
  /\ backoffs' = [backoffs EXCEPT ![t] = @ + 1]
  /\ attempt' = [attempt EXCEPT ![t] = @ + 1]
  /\ tpc' = [tpc EXCEPT ![t] = IF MoreAttempts(attempt[t])
                                 THEN "fetch" ELSE "exhausted"]
  /\ UNCHANGED <<argVars, mpc, discVars, cache, logVars, result, err, logpos,
                 mainVars>>

\* an attempt raising an exception that is no RequestException: it leaves
\* the loop and lands in the outer except Exception
FetchOtherException(t) ==
  /\ t \in Tasks
  /\ tpc[t] = "fetch"
  /\ netCalls' = [netCalls EXCEPT ![t] = @ + 1]
  /\ tpc' = [tpc EXCEPT ![t] = "handler"]
  /\ err' = [err EXCEPT ![t] = "fetch"]
  /\ logpos' = [logpos EXCEPT ![t] = <<>>]
  /\ UNCHANGED <<argVars, mpc, discVars, cache, logVars, attempt, backoffs,
                 result, mainVars>>

\* lines 70-71: log_result(..., "Failed after retries"); return
ExhaustedLogged(t) ==
  /\ t \in Tasks
  /\ tpc[t] = "exhausted"
  /\ logpos[t] # <<>>
  /\ log' = LogWrite(log, logpos[t][1], LogLine(t, FALSE, "Failed after retries"))
  /\ logWrites' = Append(logWrites, [task |-> t, at |-> logpos[t][1]])
  /\ logpos' = [logpos EXCEPT ![t] = <<>>]
  /\ tpc' = [tpc EXCEPT ![t] = "done"]
  /\ result' = [result EXCEPT ![t] = "Failed after retries"]
  /\ UNCHANGED <<argVars, mpc, discVars, cache, attempt, netCalls, backoffs,
                 err,
                 mainVars>>

\* line 70 raising (LOG_FILE cannot be opened or written)
ExhaustedLogRaises(t) ==
  /\ t \in Tasks
  /\ tpc[t] = "exhausted"
  /\ tpc' = [tpc EXCEPT ![t] = "handler"]
  /\ err' = [err EXCEPT ![t] = "log"]
  /\ logpos' = [logpos EXCEPT ![t] = <<>>]
  /\ UNCHANGED <<argVars, mpc, discVars, cache, logVars, attempt, netCalls,
                 backoffs, result, mainVars>>

\* open(file_path, "w") creates the file or truncates the one that is there
Truncate(f) == PartialFile

\* lines 73-74: os.makedirs and open succeed
OpenOk(t) ==
  /\ t \in Tasks
  /\ tpc[t] = "store"
  /\ cache' = [cache EXCEPT ![items[t]] = Truncate(@)]
  /\ tpc' = [tpc EXCEPT ![t] = "write"]
  /\ UNCHANGED <<argVars, mpc, discVars, logVars, attempt, netCalls, backoffs,
                 result, err, logpos,
                 mainVars>>

\* os.makedirs or open raising OSError
OpenRaises(t) ==
  /\ t \in Tasks
  /\ tpc[t] = "store"
  /\ tpc' = [tpc EXCEPT ![t] = "handler"]
  /\ err' = [err EXCEPT ![t] = "storage"]
  /\ logpos' = [logpos EXCEPT ![t] = <<>>]
  /\ UNCHANGED <<argVars, mpc, discVars, cache, logVars, attempt, netCalls,
                 backoffs, result, mainVars>>

\* line 75 and the close of the with block: the whole body is in the file
WriteOk(t) ==
  /\ t \in Tasks
  /\ tpc[t] = "write"
  /\ cache' = [cache EXCEPT ![items[t]] = BodyFile(t)]
  /\ tpc' = [tpc EXCEPT ![t] = "delay"]
  /\ UNCHANGED <<argVars, mpc, discVars, logVars, attempt, netCalls, backoffs,
                 result, err, logpos,
                 mainVars>>

\* f.write or the flush on close raising: the file stays as it was opened
WriteRaises(t) ==
  /\ t \in Tasks
  /\ tpc[t] = "write"
  /\ tpc' = [tpc EXCEPT ![t] = "handler"]
  /\ err' = [err EXCEPT ![t] = "storage"]
  /\ logpos' = [logpos EXCEPT ![t] = <<>>]
  /\ UNCHANGED <<argVars, mpc, discVars, cache, logVars, attempt, netCalls,
                 backoffs, result, mainVars>>

\* lines 77-79: courtesy sleep, log_result(success=True), return
SuccessLogged(t) ==
  /\ t \in Tasks
  /\ tpc[t] = "delay"
  /\ logpos[t] # <<>>
  /\ log' = LogWrite(log, logpos[t][1], LogLine(t, TRUE, ""))
  /\ logWrites' = Append(logWrites, [task |-> t, at |-> logpos[t][1]])
  /\ logpos' = [logpos EXCEPT ![t] = <<>>]
  /\ tpc' = [tpc EXCEPT ![t] = "done"]
  /\ result' = [result EXCEPT ![t] = "Saved"]
  /\ UNCHANGED <<argVars, mpc, discVars, cache, attempt, netCalls, backoffs,
                 err,
                 mainVars>>

\* line 78 raising
SuccessLogRaises(t) ==
  /\ t \in Tasks
  /\ tpc[t] = "delay"
  /\ tpc' = [tpc EXCEPT ![t] = "handler"]
  /\ err' = [err EXCEPT ![t] = "log"]
  /\ logpos' = [logpos EXCEPT ![t] = <<>>]
  /\ UNCHANGED <<argVars, mpc, discVars, cache, logVars, attempt, netCalls,
                 backoffs, result, mainVars>>

\* lines 81-83: except Exception: log_result(..., str(e)); return
HandlerLogged(t) ==
  /\ t \in Tasks
  /\ tpc[t] = "handler"
  /\ logpos[t] # <<>>
  /\ log' = LogWrite(log, logpos[t][1], LogLine(t, FALSE, err[t]))
  /\ logWrites' = Append(logWrites, [task |-> t, at |-> logpos[t][1]])
  /\ logpos' = [logpos EXCEPT ![t] = <<>>]
  /\ tpc' = [tpc EXCEPT ![t] = "done"]
  /\ result' = [result EXCEPT ![t] = "Crash"]
  /\ UNCHANGED <<argVars, mpc, discVars, cache, attempt, netCalls, backoffs,
                 err,
                 mainVars>>

\* line 82 raising inside the handler: the exception leaves save_html and
\* is stored in the future
HandlerLogRaises(t) ==
  /\ t \in Tasks
  /\ tpc[t] = "handler"
  /\ tpc' = [tpc EXCEPT ![t] = "raised"]
  /\ result' = [result EXCEPT ![t] = "exception"]
  /\ logpos' = [logpos EXCEPT ![t] = <<>>]
  /\ UNCHANGED <<argVars, mpc, discVars, cache, logVars, attempt, netCalls,
                 backoffs, err,
                 mainVars>>

----------------------------------------------------------------------------
(* download_with_eta: the as_completed loop *)

\* if completed % eta_interval == 0 or completed == total
ReportDue(c, total) == c % eta_interval = 0 \/ c = total

\* one iteration for a future that holds a return value
Collect(t) ==
  /\ mpc = "collect"
  /\ t \in Tasks \ consumed
  /\ tpc[t] = "done"
  /\ completed' = completed + 1
  /\ consumed' = consumed \cup {t}
  /\ printed' = Append(printed, t)
  /\ reports' = IF ReportDue(completed + 1, Len(items))
                  THEN Append(reports, completed + 1) ELSE reports
  /\ UNCHANGED <<argVars, mpc, discVars, cache, logVars, taskVars>>

\* one iteration for a future that holds an exception: future.result()
\* re-raises it, the with block starts executor.shutdown(wait=True)
CollectRaises(t) ==
  /\ mpc = "collect"
  /\ t \in Tasks \ consumed
  /\ tpc[t] = "raised"
  /\ completed' = completed + 1
  /\ consumed' = consumed \cup {t}
  /\ mpc' = "unwind"
  /\ UNCHANGED <<argVars, discVars, cache, logVars, taskVars, printed, reports>>

\* every future was yielded: the loop and the with block end, the call returns
Return ==
  /\ mpc = "collect"
  /\ consumed = Tasks
  /\ mpc' = "returned"
  /\ UNCHANGED <<argVars, discVars, cache, logVars, taskVars, mainVars>>

\* shutdown(wait=True) has seen every work item finish: the exception
\* leaves download_with_eta and ends the script
Propagate ==
  /\ mpc = "unwind"
  /\ \A t \in Tasks : Finished(t)
  /\ mpc' = "raised"
  /\ UNCHANGED <<argVars, discVars, cache, logVars, taskVars, mainVars>>

----------------------------------------------------------------------------
(* The process is killed, and the script is started again on the same items *)

\* SIGKILL while download_with_eta runs: every thread stops where it is, the
\* memory of the process is gone, the files stay as they are on disk
Kill ==
  /\ mpc \in {"collect", "unwind"}
  /\ run < MaxRuns
  /\ mpc' = "killed"
  /\ tpc' = <<>>
  /\ attempt' = <<>>
  /\ netCalls' = <<>>
  /\ backoffs' = <<>>
  /\ result' = <<>>
  /\ err' = <<>>
  /\ logpos' = <<>>
  /\ completed' = 0
  /\ consumed' = {}
  /\ printed' = <<>>
  /\ reports' = <<>>
  /\ UNCHANGED <<argVars, discVars, cache, logVars>>

\* the next run: discovery yields the same list, download_with_eta is called
\* on it; the cache is what the killed run left, the lines of the next run
\* are counted from the end of the log the killed run left
Rerun ==
  /\ mpc = "killed"
  /\ run' = run + 1
  /\ cache0' = cache
  /\ log' = <<>>
  /\ logWrites' = <<>>
  /\ mpc' = "submit"
  /\ UNCHANGED <<variant, items, max_workers, eta_interval, discVars, cache,
                 taskVars, mainVars>>

----------------------------------------------------------------------------
Worker(t) ==
  \/ Start(t)
  \/ LogOpen(t)
  \/ Check(t)
  \/ FetchOk(t)
  \/ FetchRequestException(t)
  \/ FetchOtherException(t)
  \/ ExhaustedLogged(t)
  \/ ExhaustedLogRaises(t)
  \/ OpenOk(t)
  \/ OpenRaises(t)
  \/ WriteOk(t)
  \/ WriteRaises(t)
  \/ SuccessLogged(t)
  \/ SuccessLogRaises(t)
  \/ HandlerLogged(t)
  \/ HandlerLogRaises(t)

Next ==
  \/ DiscoverPageOk
  \/ DiscoverPageFail
  \/ DiscoverReturn
  \/ Submit
  \/ \E t \in Tasks : Worker(t)
  \/ \E t \in Tasks : Collect(t)
  \/ \E t \in Tasks : CollectRaises(t)
  \/ Return
  \/ Propagate
  \/ Kill
  \/ Rerun

Spec == Init /\ [][Next]_vars

\* the call of scrape_property_links alone, up to its return
NextDiscover ==
  \/ DiscoverPageOk
  \/ DiscoverPageFail
  \/ DiscoverReturn

SpecDiscover == Init /\ [][NextDiscover]_vars

----------------------------------------------------------------------------
(* Vocabulary of the properties *)

CachedAtStart(id) == cache0[id].st # "none"

\* number of lines task t has put into the log
LinesOf(t) == Cardinality({i \in DOMAIN log : log[i].task = t})

Skipped(t) == result[t] = "Already saved"
Success(t) == result[t] = "Saved"
Failed(t) == result[t] \in {"Failed after retries", "Crash"}

\* the retry loop of t has been entered
EnteredLoop(t) == tpc[t] \notin {"pending", "check"} /\ ~Skipped(t)

\* t is between its first session.get and the end of its file write
InFlight(t) == tpc[t] \in {"fetch", "exhausted", "store", "write"}

NoDuplicates(s) == \A i, j \in DOMAIN s : s[i] = s[j] => i = j

RunOver == mpc \in {"returned", "raised"}

----------------------------------------------------------------------------
(* C1 *)

\* C1: when every id of the item set has a document in the cache at the
\* start of the run, no task ever makes a network request, no task gets
\* further than its skip check, every finished task holds "Already saved",
\* and the run returns with that outcome for every item; for every
\* max_workers.
Idempotence ==
  (\A i \in DOMAIN items : CachedAtStart(items[i])) =>
     /\ \A t \in Tasks :
          /\ netCalls[t] = 0
          /\ tpc[t] \in {"pending", "check", "done"}
          /\ tpc[t] = "done" => Skipped(t)
     /\ mpc \notin {"unwind", "raised"}
     /\ mpc = "returned" => \A i \in DOMAIN items : Skipped(i)

IdempotenceWitness ==
  /\ mpc = "returned"
  /\ Len(items) = 2
  /\ max_workers = 2
  /\ \A i \in DOMAIN items : CachedAtStart(items[i])
  /\ \A t \in Tasks : Skipped(t)

----------------------------------------------------------------------------
(* C2 *)

\* C2: in one run, for every id, at most one task enters the retry loop,
\* and no two tasks of the same id are in flight (fetching or writing)
\* at the same moment, whatever catalog the discoverer returned.
AtMostOneFetch ==
  \A t1, t2 \in Tasks :
    (t1 # t2 /\ items[t1] = items[t2]) =>
       /\ ~(EnteredLoop(t1) /\ EnteredLoop(t2))
       /\ ~(InFlight(t1) /\ InFlight(t2))

----------------------------------------------------------------------------
(* C3 *)

\* C3: the list scrape_property_links returns holds no id twice, in the
\* plain and in the price-aware script.
CatalogUnique == mpc # "discover" => NoDuplicates(items)

----------------------------------------------------------------------------
(* C4 *)

\* C4: a task whose five fetch attempts all failed ends with exactly one
\* Failed outcome and exactly one ERROR line, and when the run is over the
\* outcome of every other item has been reported by the main loop.
ExhaustionContract ==
  \A t \in Tasks :
    (attempt[t] = MaxAttempts /\ Finished(t)) =>
       /\ Failed(t)
       /\ LinesOf(t) = 1
       /\ \A i \in DOMAIN log : log[i].task = t => log[i].status = "ERROR"
       /\ RunOver => \A u \in Tasks \ {t} : u \in Range(printed)

----------------------------------------------------------------------------
(* C5 *)

\* C5: for a catalog of N distinct items none of which is cached at the
\* start, once download_with_eta has returned the log has gained exactly N
\* lines, one per item, each with status SUCCESS or ERROR.
LogCompleteness ==
  ( /\ mpc = "returned"
    /\ NoDuplicates(items)
    /\ \A i \in DOMAIN items : ~CachedAtStart(items[i]) ) =>
     /\ Len(log) = Len(items)
     /\ \A t \in Tasks : LinesOf(t) = 1
     /\ \A i \in DOMAIN log : log[i].status \in {"SUCCESS", "ERROR"}

LogCompletenessWitness ==
  /\ mpc = "returned"
  /\ Len(items) = 2
  /\ NoDuplicates(items)
  /\ \A i \in DOMAIN items : ~CachedAtStart(items[i])
  /\ \E t1, t2 \in Tasks :
       /\ Success(t1)
       /\ result[t2] = "Failed after retries"
  /\ Len(log) = 2

----------------------------------------------------------------------------
(* C6 *)

\* C6 as stated: every item with an outcome, Skipped included, has exactly
\* one line in the log.
EveryOutcomeLogged ==
  \A t \in Tasks : tpc[t] = "done" => LinesOf(t) = 1

\* C6 as amended: an item whose outcome is Success or Failed has exactly one
\* line in the log from the moment its outcome exists (hence before the main
\* loop reports it), an item whose outcome is Skipped has none, no item ever
\* has two, and after the run the log has gained as many lines as there are
\* items that were not skipped.
OutcomeLoggedUnlessSkipped ==
  /\ \A t \in Tasks :
       /\ LinesOf(t) <= 1
       /\ tpc[t] = "done" => LinesOf(t) = (IF Skipped(t) THEN 0 ELSE 1)
       /\ t \in Range(printed) => tpc[t] = "done"
  /\ mpc = "returned" =>
       Len(log) = Cardinality({t \in Tasks : ~Skipped(t)})

OutcomeLoggedWitness ==
  /\ mpc = "returned"
  /\ \E t1, t2 \in Tasks :
       /\ Skipped(t1) /\ CachedAtStart(items[t1])
       /\ Failed(t2) /\ attempt[t2] = MaxAttempts
  /\ Len(log) = 1

----------------------------------------------------------------------------
(* C7 *)

\* C7 as stated: an item cached at the start is never a work item of the
\* pool, neither queued nor held by a worker.
SkipBeforeSubmission ==
  \A t \in Tasks : CachedAtStart(items[t]) => tpc[t] \notin {"pending", "check"}

\* C7 as amended: an item cached at the start is submitted like every other
\* item; the skip check is the first thing its worker does, so the item
\* never gets past that check, makes no network call, writes no log line and
\* ends with "Already saved".
SkipInsideWorker ==
  \A t \in Tasks :
    CachedAtStart(items[t]) =>
       /\ tpc[t] \in {"pending", "check", "done"}
       /\ netCalls[t] = 0
       /\ LinesOf(t) = 0
       /\ tpc[t] = "done" => Skipped(t)

\* a cached item holds the only worker while a non-cached item waits
SkipInsideWorkerWitness ==
  /\ max_workers = 1
  /\ \E t1, t2 \in Tasks :
       /\ CachedAtStart(items[t1]) /\ tpc[t1] = "check"
       /\ ~CachedAtStart(items[t2]) /\ tpc[t2] = "pending"

----------------------------------------------------------------------------
(* C8 *)

\* C8: save_html always returns an outcome string; no future holds an
\* exception, and future.result() never raises in download_with_eta.
NeverRaises ==
  /\ \A t \in Tasks : tpc[t] # "raised" /\ result[t] # "exception"
  /\ mpc \notin {"unwind", "raised"}

----------------------------------------------------------------------------
(* C9 *)

\* C9: when download_with_eta has ended, every submitted item has an
\* outcome and the completion counter equals the number of items.
RunCompletes ==
  RunOver =>
     /\ \A t \in Tasks : Skipped(t) \/ Success(t) \/ Failed(t)
     /\ completed = Len(items)

----------------------------------------------------------------------------
(* C10 *)

\* C10: scrape_property_links attempts the pages 1..pages once each, in
\* increasing order, whether or not fetches fail, and the ids of the list
\* it returns are exactly the ids carried by the pages fetched successfully.
DiscoveryToleratesFailures ==
  /\ mpc = "discover" => attempted = [i \in 1..(page - 1) |-> i]
  /\ mpc # "discover" =>
       /\ attempted = [i \in 1..MaxPages |-> i]
       /\ Range(items) = found

\* page 2 failed, pages 1 and 3 were fetched and carry two ids between them
DiscoveryWitness ==
  /\ mpc = "submit"
  /\ failedPages = {2}
  /\ Cardinality(found) = 2
  /\ Range(items) = found

----------------------------------------------------------------------------
(* C11 *)

\* C11: once a complete document for an id is in the cache, no step of this
\* run or of the run after a kill truncates or rewrites it.
WriteOnce ==
  [][\A id \in Ids : cache[id].st = "body" => cache'[id] = cache[id]]_vars

----------------------------------------------------------------------------
(* C12 *)

\* the document of id was completely written when the run started
FullyDownloadedAtStart(id) == cache0[id].st = "body"

\* C12: in the run that follows a kill, on a list of distinct ids, a task
\* that is past its skip check was skipped exactly when the document of
\* its id had been completely written before the kill; every other item
\* is in its retry loop or beyond.
Resumable ==
  (run > 1 /\ NoDuplicates(items)) =>
     \A t \in Tasks :
        tpc[t] \notin {"pending", "check"} =>
           (Skipped(t) <=> FullyDownloadedAtStart(items[t]))

----------------------------------------------------------------------------
(* C13 *)

\* os.makedirs, open or f.write raised for t after its fetch had succeeded
StorageFailed(t) == err[t] = "storage"

\* C13: a task whose storing failed ends with exactly one Failed outcome and
\* exactly one log line, an ERROR line carrying the storage error; the
\* attempt that succeeded was its last request, and when the run is over the
\* outcome of every other item has been reported by the main loop.
StorageFailureContract ==
  \A t \in Tasks :
    (StorageFailed(t) /\ Finished(t)) =>
       /\ Failed(t)
       /\ LinesOf(t) = 1
       /\ \A i \in DOMAIN log :
             log[i].task = t => log[i].status = "ERROR" /\ log[i].msg = "storage"
       /\ netCalls[t] = attempt[t] + 1
       /\ RunOver => \A u \in Tasks \ {t} : u \in Range(printed)

----------------------------------------------------------------------------
(* C14 *)

\* the report condition for counter value c in this call
Due(c) == ReportDue(c, Len(items))

\* C14: the reports made so far are exactly the values of the completion
\* counter reached so far that are a multiple of eta_interval or equal to
\* the total, in increasing order, and when download_with_eta has ended the
\* counter has reached the total, so the final completion has reported.
ProgressCadence ==
  /\ reports = SelectSeq([c \in 1..completed |-> c], Due)
  /\ RunOver => completed = Len(items)

----------------------------------------------------------------------------
(* C15 *)

\* the outcome of t is a failure that came from the fetch
FailedByFetching(t) ==
  \/ result[t] = "Failed after retries"
  \/ result[t] = "Crash" /\ err[t] = "fetch"

\* C15 as stated: a Failed outcome caused by fetching comes only after
\* exactly five failed attempts.
FailedOnlyAfterFiveAttempts ==
  \A t \in Tasks : FailedByFetching(t) => netCalls[t] = MaxAttempts

\* C15, amended: a task makes at most five requests; an attempt is followed
\* by another one only when it raised requests.RequestException and fewer
\* than five attempts have been made, so the loop stops at the first
\* success; "Failed after retries" comes only after exactly five attempts
\* that raised RequestException; an attempt that raises any other exception
\* is the last one, whatever its number, and ends in the except handler.
RetryBudget ==
  \A t \in Tasks :
    /\ netCalls[t] <= MaxAttempts
    /\ attempt[t] <= netCalls[t] /\ netCalls[t] <= attempt[t] + 1
    /\ tpc[t] = "fetch" => netCalls[t] = attempt[t] /\ attempt[t] < MaxAttempts
    /\ tpc[t] \in {"store", "write", "delay"} => netCalls[t] = attempt[t] + 1
    /\ tpc[t] = "exhausted" => attempt[t] = MaxAttempts
    /\ result[t] = "Failed after retries" =>
         attempt[t] = MaxAttempts /\ netCalls[t] = MaxAttempts
    /\ err[t] = "fetch" =>
         /\ netCalls[t] = attempt[t] + 1
         /\ tpc[t] \in {"handler", "done", "raised"}
         /\ tpc[t] = "done" => result[t] = "Crash"

\* one item used up its five attempts, another one failed twice with a
\* RequestException and then with another exception, and crashed
RetryBudgetWitness ==
  \E t, u \in Tasks :
    /\ result[t] = "Failed after retries"
    /\ netCalls[t] = MaxAttempts
    /\ result[u] = "Crash"
    /\ err[u] = "fetch"
    /\ netCalls[u] = 3

----------------------------------------------------------------------------
(* C16 *)

\* C16: a backoff delay is taken only when another attempt follows: no task
\* takes more than four delays, and a task whose five attempts all failed
\* has taken exactly four.
BackoffBetweenAttemptsOnly ==
  \A t \in Tasks :
    /\ backoffs[t] <= MaxAttempts - 1
    /\ attempt[t] = MaxAttempts => backoffs[t] = MaxAttempts - 1

----------------------------------------------------------------------------
(* C17 *)

\* C17: every id that has a SUCCESS line in the log of this run has a
\* completely written document in the cache.
StorePrecedesSuccess ==
  \A i \in DOMAIN log :
    log[i].status = "SUCCESS" => cache[log[i].id].st = "body"

----------------------------------------------------------------------------
(* C18 *)

----------------------------------------------------------------------------
(* C19 *)

\* C19: when download_with_eta has returned, the ids that have a file in
\* the cache are the ids that had one at the start and the ids of the items
\* whose outcome is Success, and no item whose outcome is Failed has one
\* unless it had one at the start.
CacheAfterRun ==
  mpc = "returned" =>
    /\ \A id \in Ids :
         Exists(id) <=>
           (CachedAtStart(id) \/ \E t \in Tasks : items[t] = id /\ Success(t))
    /\ \A t \in Tasks : Failed(t) => ~Exists(items[t])

====
